---- MODULE Spec2Model ----
(***************************************************************************)
(* Model of src/src/ft.rs: the radix-2 evaluation domain over a prime      *)
(* field (EvaluationDomain, compute_omega, serial_fft, parallel_fft and    *)
(* the pointwise operations).                                              *)
(*                                                                         *)
(* The scalar field of the source (blstrs::Scalar, 2-adicity S = 32) is    *)
(* replaced by the prime field of order P = 17, whose multiplicative group *)
(* has order 2^4, so that every buffer the code can build (up to 2^(S-1)   *)
(* elements) and the first rejected size are within reach of TLC.          *)
(* Buffers are sequences; index i of the source is position i + 1.         *)
(***************************************************************************)
EXTENDS Integers, Sequences, FiniteSets, TLC

\* The records of the model and their fields:
\*   a, ok                      a buffer after a call that may panic
\*   dom, ok (, rhs)            a domain after a call that may fail or panic
\*   exp, m, ok, omega          what compute_omega returns
\*   coeffs .. omegainv         struct EvaluationDomain
\*   called, d, res             a compute_omega call
\*   chunk_size .. omega        the arguments of a scoped parallel call
\*   pos, u                     a distribute_powers task
RecordFields ==
    [a |-> 0, called |-> 0, chunk_size |-> 0, coeffs |-> 0, d |-> 0, dom |-> 0,
     exp |-> 0, g |-> 0, geninv |-> 0, log_cpus |-> 0, log_n |-> 0, m |-> 0,
     minv |-> 0, ok |-> 0, omega |-> 0, omegainv |-> 0, pos |-> 0, res |-> 0,
     rhs |-> 0, u |-> 0]

VARIABLES
    parallel,     \* the build has feature "parallel"
    num_threads,  \* rayon::current_num_threads()
    status,       \* "none", "ok", "err" (PolynomialDegreeTooLarge), "panic"
    dom,          \* the EvaluationDomain the caller holds (self)
    other,        \* the second domain, argument of mul_assign / sub_assign
    input,        \* the coefficient vector handed to the constructor
    hist,         \* the constructor of dom and the operations applied to it since
    sizing,       \* the last compute_omega call: its argument and result
    pc,           \* position inside a scoped parallel call
    a,            \* the buffer a scoped parallel call works on
    a0,           \* that buffer as the call received it
    tmp,          \* parallel_fft: the per-lane temporary buffers
    pending,      \* tasks spawned in the current scope and not yet finished
    par,          \* the arguments of the scoped parallel call
    task,         \* distribute_powers: per task, its position and running power
    writers,      \* per buffer index, the tasks that wrote it in this scope
    pa,           \* fft_mul: left polynomial
    pb            \* fft_mul: right polynomial

vars == <<parallel, num_threads, status, dom, other, input, hist, sizing,
          pc, a, a0, tmp, pending, par, task, writers, pa, pb>>

\* ------------------------------------------------------------------
\* The field element collaborator (blstrs::Scalar)
\* ------------------------------------------------------------------

\* Order of the prime field.
P == 17
\* Scalar::S: the 2-adicity of P - 1.
S == 4
\* Scalar::multiplicative_generator().
GENERATOR == 3
\* Scalar::root_of_unity(): GENERATOR^((P-1)/2^S), of order exactly 2^S.
ROOT_OF_UNITY == 3

Field == 0 .. (P - 1)

Add(x, y) == (x + y) % P
Sub(x, y) == (x - y + P) % P
Mul(x, y) == (x * y) % P

\* Field::pow_vartime: square-and-multiply over the bits of the exponent.
RECURSIVE Pow(_, _)
Pow(x, e) ==
    IF e = 0 THEN 1
    ELSE LET h == Pow(x, e \div 2)
             sq == Mul(h, h)
         IN  IF e % 2 = 1 THEN Mul(sq, x) ELSE sq

\* Field::invert: None on zero, else the multiplicative inverse.
Invertible(x) == x % P # 0
Invert(x) == CHOOSE y \in Field : Mul(x % P, y) = 1

\* 1 << e
Shl(e) == 2 ^ e

\* ------------------------------------------------------------------
\* Buffers
\* ------------------------------------------------------------------

At(buf, i) == buf[i + 1]
Set(buf, i, v) == [buf EXCEPT ![i + 1] = v]
Zeros(n) == [i \in 1 .. n |-> 0]

\* Vec::resize(m, zero): truncate or pad with zeroes.
Resize(buf, m) == [i \in 1 .. m |-> IF i <= Len(buf) THEN buf[i] ELSE 0]

\* ------------------------------------------------------------------
\* Domain sizing
\* ------------------------------------------------------------------

\* Mutant: the loop doubles while m <= d.
RECURSIVE SizeLoopInclusive(_, _, _)
SizeLoopInclusive(d, m, exp) ==
    IF m <= d
    THEN IF exp + 1 >= S
         THEN [exp |-> 0, m |-> 0, ok |-> FALSE]
         ELSE SizeLoopInclusive(d, m * 2, exp + 1)
    ELSE [exp |-> exp, m |-> m, ok |-> TRUE]

RECURSIVE SizeLoop(_, _, _)
SizeLoop(d, m, exp) ==
    IF m < d
    THEN IF exp + 1 >= S
         THEN [exp |-> 0, m |-> 0, ok |-> FALSE]
         ELSE SizeLoop(d, m * 2, exp + 1)
    ELSE [exp |-> exp, m |-> m, ok |-> TRUE]

compute_omega(d) ==
    LET r == SizeLoop(d, 1, 0)
    IN  IF r.ok
        THEN [exp |-> r.exp,
              m |-> r.m,
              ok |-> TRUE,
              omega |-> Pow(ROOT_OF_UNITY, Shl(S - r.exp))]
        ELSE [exp |-> 0, m |-> 0, ok |-> FALSE, omega |-> 0]

\* ------------------------------------------------------------------
\* Serial transform
\* ------------------------------------------------------------------

RECURSIVE BitrevLoop(_, _, _)
BitrevLoop(n, l, r) ==
    IF l = 0 THEN r ELSE BitrevLoop(n \div 2, l - 1, r * 2 + (n % 2))

bitreverse(n, l) == BitrevLoop(n, l, 0)

RECURSIVE SwapLoop(_, _, _, _)
SwapLoop(buf, k, n, log_n) ==
    IF k >= n THEN buf
    ELSE LET rk == bitreverse(k, log_n)
         IN  IF k < rk
             THEN SwapLoop(Set(Set(buf, k, At(buf, rk)), rk, At(buf, k)), k + 1, n, log_n)
             ELSE SwapLoop(buf, k + 1, n, log_n)

RECURSIVE ButterflyLoop(_, _, _, _, _, _)
ButterflyLoop(buf, k, m, j, w, w_m) ==
    IF j >= m THEN buf
    ELSE LET t == Mul(At(buf, k + j + m), w)
             diff == Sub(At(buf, k + j), t)
             b1 == Set(buf, k + j + m, diff)
             b2 == Set(b1, k + j, Add(At(b1, k + j), t))
         IN  ButterflyLoop(b2, k, m, j + 1, Mul(w, w_m), w_m)

RECURSIVE BlockLoop(_, _, _, _, _)
BlockLoop(buf, k, n, m, w_m) ==
    IF k >= n THEN buf
    ELSE BlockLoop(ButterflyLoop(buf, k, m, 0, 1, w_m), k + 2 * m, n, m, w_m)

RECURSIVE StageLoop(_, _, _, _, _)
StageLoop(buf, omega, n, m, left) ==
    IF left = 0 THEN buf
    ELSE StageLoop(BlockLoop(buf, 0, n, m, Pow(omega, n \div (2 * m))),
                   omega, n, m * 2, left - 1)

\* The result of a call that may panic: ok = FALSE is the panic, and field a
\* is then the buffer as the panic leaves it.
serial_fft(buf, omega, log_n) ==
    LET n == Len(buf)
    IN  IF n # Shl(log_n)
        THEN [a |-> buf, ok |-> FALSE]
        ELSE [a |-> StageLoop(SwapLoop(buf, 0, n, log_n), omega, n, 1, log_n), ok |-> TRUE]

\* ------------------------------------------------------------------
\* Thread pool helpers (crate::utils)
\* ------------------------------------------------------------------

\* utils::log2: floor of the base-2 logarithm.
RECURSIVE log2(_)
log2(x) == IF x <= 1 THEN 0 ELSE 1 + log2(x \div 2)

\* utils::chunk_by_num_threads: one contiguous chunk per thread, never empty.
chunk_by_num_threads(size) ==
    IF size < num_threads THEN 1 ELSE size \div num_threads

\* slice::chunks(chunk_size): how many chunks, and the index range of chunk c.
NumChunks(len, chunk_size) == (len + chunk_size - 1) \div chunk_size
ChunkLo(c, chunk_size) == c * chunk_size
ChunkHi(len, c, chunk_size) ==
    IF (c + 1) * chunk_size < len THEN (c + 1) * chunk_size ELSE len

\* ------------------------------------------------------------------
\* Parallel transform
\* ------------------------------------------------------------------

\* The shuffle of lane j: tmp[i] accumulates a[(i + s * n_sub) % n] * elt over
\* the strides s, elt stepping by omega_step per stride and omega_j per i.
RECURSIVE ShuffleLoop(_, _, _, _, _, _, _, _, _)
ShuffleLoop(buf, t, i, s, elt, omega_j, omega_step, log_n, log_cpus) ==
    LET log_new_n == log_n - log_cpus
        num_cpus == Shl(log_cpus)
    IN  IF i >= Len(t) THEN [a |-> t, ok |-> TRUE]
        ELSE IF s >= num_cpus
        THEN ShuffleLoop(buf, t, i + 1, 0, Mul(elt, omega_j),
                         omega_j, omega_step, log_n, log_cpus)
        ELSE LET idx == (i + s * Shl(log_new_n)) % Shl(log_n)
             IN  IF idx >= Len(buf)
                 THEN [a |-> t, ok |-> FALSE]
                 ELSE ShuffleLoop(buf,
                                  Set(t, i, Add(At(t, i), Mul(At(buf, idx), elt))),
                                  i, s + 1, Mul(elt, omega_step),
                                  omega_j, omega_step, log_n, log_cpus)

\* Mutant: the per-stride twiddle omega_step is left out.
LaneTaskNoStride(buf, omega, log_n, log_cpus, j) ==
    LET log_new_n == log_n - log_cpus
        new_omega == Pow(omega, Shl(log_cpus))
        omega_j == Pow(omega, j)
        sh == ShuffleLoop(buf, Zeros(Shl(log_new_n)), 0, 0, 1,
                          omega_j, 1, log_n, log_cpus)
    IN  IF sh.ok THEN serial_fft(sh.a, new_omega, log_new_n) ELSE sh

\* The task spawned for lane j: shuffle into tmp[j], then the sub-FFT.
LaneTask(buf, omega, log_n, log_cpus, j) ==
    LET log_new_n == log_n - log_cpus
        new_omega == Pow(omega, Shl(log_cpus))
        omega_j == Pow(omega, j)
        omega_step == Pow(omega, j * Shl(log_new_n))
        sh == ShuffleLoop(buf, Zeros(Shl(log_new_n)), 0, 0, 1,
                          omega_j, omega_step, log_n, log_cpus)
    IN  IF sh.ok THEN serial_fft(sh.a, new_omega, log_new_n) ELSE sh

\* The recombination task of one chunk: a[idx] = tmp[idx & mask][idx >> log_cpus].
RECURSIVE RecombineLoop(_, _, _, _, _)
RecombineLoop(buf, t, idx, hi, log_cpus) ==
    IF idx >= hi THEN [a |-> buf, ok |-> TRUE]
    ELSE LET lane == idx % Shl(log_cpus)
             pos == idx \div Shl(log_cpus)
         IN  IF pos >= Len(t[lane + 1])
             THEN [a |-> buf, ok |-> FALSE]
             ELSE RecombineLoop(Set(buf, idx, At(t[lane + 1], pos)),
                                t, idx + 1, hi, log_cpus)

RecombineTask(buf, t, c, chunk_size, log_cpus) ==
    RecombineLoop(buf, t, ChunkLo(c, chunk_size),
                  ChunkHi(Len(buf), c, chunk_size), log_cpus)

\* Every spawned task of a scope runs; the scope panics if any of them did.
RECURSIVE RecombineAll(_, _, _, _, _, _)
RecombineAll(buf, t, c, chunk_size, log_cpus, ok) ==
    IF c >= NumChunks(Len(buf), chunk_size) THEN [a |-> buf, ok |-> ok]
    ELSE LET r == RecombineTask(buf, t, c, chunk_size, log_cpus)
         IN  RecombineAll(r.a, t, c + 1, chunk_size, log_cpus, ok /\ r.ok)

parallel_fft(buf, omega, log_n, log_cpus) ==
    IF log_n < log_cpus THEN [a |-> buf, ok |-> FALSE]
    ELSE LET num_cpus == Shl(log_cpus)
             lanes == [j \in 1 .. num_cpus |->
                          LaneTask(buf, omega, log_n, log_cpus, j - 1)]
         IN  IF \E j \in 1 .. num_cpus : ~lanes[j].ok
             THEN [a |-> buf, ok |-> FALSE]
             ELSE RecombineAll(buf, [j \in 1 .. num_cpus |-> lanes[j].a], 0,
                               chunk_by_num_threads(Len(buf)), log_cpus, TRUE)

best_fft(buf, omega, log_n) ==
    IF parallel
    THEN LET log_cpus == log2(num_threads)
         IN  IF log_n <= log_cpus
             THEN serial_fft(buf, omega, log_n)
             ELSE parallel_fft(buf, omega, log_n, log_cpus)
    ELSE serial_fft(buf, omega, log_n)

\* ------------------------------------------------------------------
\* Evaluation domain: construction
\* ------------------------------------------------------------------

Domain(coeffs, d, exp, omega, omegainv, geninv, minv) ==
    [coeffs |-> coeffs,
     d |-> d,
     exp |-> exp,
     geninv |-> geninv,
     minv |-> minv,
     omega |-> omega,
     omegainv |-> omegainv]

\* No domain held: before construction, or after a failed construction.
NoDomain == Domain(<<>>, 0, 0, 0, 0, 0, 0)

len(self) == Len(self.coeffs)

clone_with_different_coeffs(self, coeffs) == [self EXCEPT !.coeffs = coeffs]

\* ok = FALSE: one of the unwrap() calls met None.
new(coeffs, d, exp, omega) ==
    IF Invertible(omega) /\ Invertible(GENERATOR) /\ Invertible(d)
    THEN [dom |-> Domain(coeffs, d, exp, omega, Invert(omega), Invert(GENERATOR), Invert(d)),
          ok |-> TRUE]
    ELSE [dom |-> NoDomain, ok |-> FALSE]

\* ok = FALSE: Err(PolynomialDegreeTooLarge).
from_coeffs(coeffs) ==
    LET r == compute_omega(Len(coeffs))
    IN  IF r.ok
        THEN [dom |-> Domain(Resize(coeffs, r.m), r.m, r.exp, r.omega,
                             Invert(r.omega), Invert(GENERATOR), Invert(r.m)),
              ok |-> TRUE]
        ELSE [dom |-> NoDomain, ok |-> FALSE]

\* ------------------------------------------------------------------
\* Evaluation domain: operations
\* ------------------------------------------------------------------

\* for v in chunk { v.mul_assign(&k) }
RECURSIVE ScaleLoop(_, _, _, _)
ScaleLoop(buf, idx, hi, k) ==
    IF idx >= hi THEN buf
    ELSE ScaleLoop(Set(buf, idx, Mul(At(buf, idx), k)), idx + 1, hi, k)

ScaleTask(buf, c, chunk_size, k) ==
    ScaleLoop(buf, ChunkLo(c, chunk_size), ChunkHi(Len(buf), c, chunk_size), k)

RECURSIVE ScaleChunks(_, _, _, _)
ScaleChunks(buf, c, chunk_size, k) ==
    IF c >= NumChunks(Len(buf), chunk_size) THEN buf
    ELSE ScaleChunks(ScaleTask(buf, c, chunk_size, k), c + 1, chunk_size, k)

\* Mutant: the scaling pass is left out.
ScaleAllSkipped(buf, k) == buf

\* The scaling pass of ifft and divide_by_z_on_coset.
ScaleAll(buf, k) ==
    IF parallel
    THEN ScaleChunks(buf, 0, chunk_by_num_threads(Len(buf)), k)
    ELSE ScaleLoop(buf, 0, Len(buf), k)

fft(self) ==
    LET r == best_fft(self.coeffs, self.omega, self.exp)
    IN  [dom |-> [self EXCEPT !.coeffs = r.a], ok |-> r.ok]

\* Mutant: the inverse transform runs with omega instead of omegainv.
ifft_with_omega(self) ==
    LET r == best_fft(self.coeffs, self.omega, self.exp)
    IN  IF r.ok
        THEN [dom |-> [self EXCEPT !.coeffs = ScaleAll(r.a, self.minv)], ok |-> TRUE]
        ELSE [dom |-> [self EXCEPT !.coeffs = r.a], ok |-> FALSE]

ifft(self) ==
    LET r == best_fft(self.coeffs, self.omegainv, self.exp)
    IN  IF r.ok
        THEN [dom |-> [self EXCEPT !.coeffs = ScaleAll(r.a, self.minv)], ok |-> TRUE]
        ELSE [dom |-> [self EXCEPT !.coeffs = r.a], ok |-> FALSE]

\* One element of a distribute_powers task: v *= u; u *= g.
DistElem(buf, idx, u) == Set(buf, idx, Mul(At(buf, idx), u))

RECURSIVE DistLoop(_, _, _, _, _)
DistLoop(buf, idx, hi, u, g) ==
    IF idx >= hi THEN buf
    ELSE DistLoop(DistElem(buf, idx, u), idx + 1, hi, Mul(u, g), g)

\* Mutant: the starting power is g^c, the chunk size forgotten.
DistStartByChunkIndex(c, chunk_size, g) == Pow(g, c)

\* The starting power of the task of chunk c.
DistStart(c, chunk_size, g) == Pow(g, c * chunk_size)

DistTask(buf, c, chunk_size, g) ==
    DistLoop(buf, ChunkLo(c, chunk_size), ChunkHi(Len(buf), c, chunk_size),
             DistStart(c, chunk_size, g), g)

RECURSIVE DistChunks(_, _, _, _)
DistChunks(buf, c, chunk_size, g) ==
    IF c >= NumChunks(Len(buf), chunk_size) THEN buf
    ELSE DistChunks(DistTask(buf, c, chunk_size, g), c + 1, chunk_size, g)

\* The loop of the build without feature "parallel": u = g^i afresh per element.
RECURSIVE DistSerial(_, _, _)
DistSerial(buf, i, g) ==
    IF i >= Len(buf) THEN buf
    ELSE DistSerial(Set(buf, i, Mul(At(buf, i), Pow(g, i))), i + 1, g)

distribute_powers(self, g) ==
    [self EXCEPT !.coeffs =
        IF parallel
        THEN DistChunks(self.coeffs, 0, chunk_by_num_threads(Len(self.coeffs)), g)
        ELSE DistSerial(self.coeffs, 0, g)]

coset_fft(self) == fft(distribute_powers(self, GENERATOR))

\* Mutant: the powers of the generator are distributed again, not its inverse.
icoset_fft_with_generator(self) ==
    LET r == ifft(self)
    IN  IF r.ok
        THEN [dom |-> distribute_powers(r.dom, GENERATOR), ok |-> TRUE]
        ELSE r

icoset_fft(self) ==
    LET r == ifft(self)
    IN  IF r.ok
        THEN [dom |-> distribute_powers(r.dom, self.geninv), ok |-> TRUE]
        ELSE r

\* Mutant: the exponent is the field d, not the buffer length.
z_with_d(self, tau) == Sub(Pow(tau, self.d), 1)

z(self, tau) == Sub(Pow(tau, Len(self.coeffs)), 1)

divide_by_z_on_coset(self) ==
    LET zg == z(self, GENERATOR)
    IN  IF Invertible(zg)
        THEN [dom |-> [self EXCEPT !.coeffs = ScaleAll(self.coeffs, Invert(zg))], ok |-> TRUE]
        ELSE [dom |-> self, ok |-> FALSE]

\* for (x, y) in a.iter_mut().zip(b.iter()) { x.mul_assign(y) } (or sub_assign)
RECURSIVE ZipLoop(_, _, _, _, _)
ZipLoop(x, y, idx, hi, mul) ==
    IF idx >= hi THEN x
    ELSE ZipLoop(Set(x, idx, IF mul THEN Mul(At(x, idx), At(y, idx))
                                    ELSE Sub(At(x, idx), At(y, idx))),
                 y, idx + 1, hi, mul)

RECURSIVE ZipChunks(_, _, _, _, _)
ZipChunks(x, y, c, chunk_size, mul) ==
    IF c >= NumChunks(Len(x), chunk_size) THEN x
    ELSE ZipChunks(ZipLoop(x, y, ChunkLo(c, chunk_size),
                           ChunkHi(Len(x), c, chunk_size), mul),
                   y, c + 1, chunk_size, mul)

Pointwise(x, y, mul) ==
    IF parallel
    THEN ZipChunks(x, y, 0, chunk_by_num_threads(Len(x)), mul)
    ELSE ZipLoop(x, y, 0, Len(x), mul)

\* Mutant: no length assertion; zip stops at the shorter buffer.
mul_assign_unchecked(self, o) ==
    LET n == IF Len(self.coeffs) < Len(o.coeffs) THEN Len(self.coeffs) ELSE Len(o.coeffs)
    IN  [dom |-> [self EXCEPT !.coeffs = ZipLoop(self.coeffs, o.coeffs, 0, n, TRUE)],
         ok |-> TRUE]

mul_assign(self, o) ==
    IF Len(self.coeffs) # Len(o.coeffs)
    THEN [dom |-> self, ok |-> FALSE]
    ELSE [dom |-> [self EXCEPT !.coeffs = Pointwise(self.coeffs, o.coeffs, TRUE)],
          ok |-> TRUE]

sub_assign(self, o) ==
    IF Len(self.coeffs) # Len(o.coeffs)
    THEN [dom |-> self, ok |-> FALSE]
    ELSE [dom |-> [self EXCEPT !.coeffs = Pointwise(self.coeffs, o.coeffs, FALSE)],
          ok |-> TRUE]

\* ------------------------------------------------------------------
\* Bounds and inputs
\* ------------------------------------------------------------------

\* Longest coefficient vector handed to a constructor (2^(S-1) + 1 is the
\* first length from_coeffs rejects).
MaxLen == 9
\* Input vectors per length.
MaxSeed == 1
\* Operations applied to one domain after its construction.
MaxOps == 2
\* Largest degree count asked of compute_omega.
MaxD == 40

\* Thread pool sizes (the pool is fixed while a domain is in use).
Threads == {1, 2, 4}

InputVec(n, k) == [i \in 1 .. n |-> (k + 3 * i + (k + 1) * i * i) % P]
Inputs == {InputVec(n, k) : n \in 0 .. MaxLen, k \in 0 .. MaxSeed}

\* Arguments of mul_assign / sub_assign and replacement buffers.
ArgVec(n) == [i \in 1 .. n |-> (5 + 2 * i * i * i) % P]
ArgLens == {3, 8}
\* The powers handed to distribute_powers directly.
DistGens == {2}

\* ------------------------------------------------------------------
\* State machine of one caller holding one domain
\* ------------------------------------------------------------------

NoSizing == [called |-> FALSE, d |-> 0, res |-> compute_omega(0)]
NoCall == [chunk_size |-> 0, g |-> 0, log_cpus |-> 0, log_n |-> 0, omega |-> 0]

ScopeIdle ==
    /\ pc = "idle" /\ a = <<>> /\ a0 = <<>> /\ tmp = <<>> /\ pending = {}
    /\ par = NoCall /\ task = <<>> /\ writers = <<>>

NoPolys == pa = <<>> /\ pb = <<>>

Init ==
    /\ parallel \in BOOLEAN
    /\ num_threads \in (IF parallel THEN Threads ELSE {1})
    /\ status = "none" /\ dom = NoDomain /\ other = NoDomain
    /\ input = <<>> /\ hist = <<>> /\ sizing = NoSizing
    /\ ScopeIdle /\ NoPolys

ScopeVars == <<pc, a, a0, tmp, pending, par, task, writers>>
EnvVars == <<parallel, num_threads>>

\* A constructor returned: the caller holds r.dom, or the error.
Constructed(name, v, r) ==
    /\ status = "none"
    /\ input' = v
    /\ dom' = r.dom
    /\ status' = IF r.ok THEN "ok" ELSE "err"
    /\ hist' = <<name>>
    /\ UNCHANGED <<other, sizing, pa, pb, EnvVars, ScopeVars>>

FromCoeffs == \E v \in Inputs : Constructed("from_coeffs", v, from_coeffs(v))

New ==
    \E n \in ArgLens, k \in ArgLens :
        LET r == compute_omega(k)
        IN  r.ok /\ Constructed("new", ArgVec(n), new(ArgVec(n), r.m, r.exp, r.omega))

\* An operation on the held domain returned (r.ok) or panicked.
Applied(name, r, o) ==
    /\ status = "ok"
    /\ Len(hist) <= MaxOps
    /\ dom' = r.dom
    /\ other' = o
    /\ status' = IF r.ok THEN "ok" ELSE "panic"
    /\ hist' = Append(hist, name)
    /\ UNCHANGED <<input, sizing, pa, pb, EnvVars, ScopeVars>>

Fft == Applied("fft", fft(dom), other)
Ifft == Applied("ifft", ifft(dom), other)
CosetFft == Applied("coset_fft", coset_fft(dom), other)
IcosetFft == Applied("icoset_fft", icoset_fft(dom), other)
DistributePowers ==
    \E g \in DistGens :
        Applied("distribute_powers", [dom |-> distribute_powers(dom, g), ok |-> TRUE], other)
DivideByZOnCoset == Applied("divide_by_z_on_coset", divide_by_z_on_coset(dom), other)
MulAssign ==
    \E n \in ArgLens :
        LET o == from_coeffs(ArgVec(n)).dom
        IN  Applied("mul_assign", mul_assign(dom, o), o)
SubAssign ==
    \E n \in ArgLens :
        LET o == from_coeffs(ArgVec(n)).dom
        IN  Applied("sub_assign", sub_assign(dom, o), o)
CloneWithDifferentCoeffs ==
    \E n \in ArgLens :
        Applied("clone_with_different_coeffs",
                [dom |-> clone_with_different_coeffs(dom, ArgVec(n)), ok |-> TRUE],
                other)

Next ==
    \/ FromCoeffs
    \/ New
    \/ Fft
    \/ Ifft
    \/ CosetFft
    \/ IcosetFft
    \/ DistributePowers
    \/ DivideByZOnCoset
    \/ MulAssign
    \/ SubAssign
    \/ CloneWithDifferentCoeffs

Spec == Init /\ [][Next]_vars

\* ------------------------------------------------------------------
\* Domain sizing on its own
\* ------------------------------------------------------------------

ComputeOmega ==
    \E d \in 0 .. MaxD :
        /\ status = "none"
        /\ ~sizing.called
        /\ sizing' = [called |-> TRUE, d |-> d, res |-> compute_omega(d)]
        /\ UNCHANGED <<status, dom, other, input, hist, pa, pb, EnvVars, ScopeVars>>

NextSizing ==
    \/ ComputeOmega
    \/ FromCoeffs

SpecSizing == Init /\ [][NextSizing]_vars

\* ------------------------------------------------------------------
\* parallel_fft, task by task
\* ------------------------------------------------------------------

\* Largest log_cpus handed to parallel_fft.
MaxLogCpus == 2

\* The task-level specifications run on the largest pool; the pool size acts
\* on a scope through the chunk size only, and every chunk size is tried.
LargestPool == CHOOSE t \in Threads : \A u \in Threads : u <= t

\* The chunk sizes chunk_by_num_threads(n) may return: the value of the running
\* pool, and every other size chunks_mut accepts.
ChunkSizes(n) == {chunk_by_num_threads(n)} \cup (1 .. (IF n < 1 THEN 1 ELSE n))

\* The elements of order exactly 2^log_n.
PrimitiveRoots(log_n) ==
    {x \in Field \ {0} :
        /\ Pow(x, Shl(log_n)) = 1
        /\ log_n > 0 => Pow(x, Shl(log_n - 1)) # 1}

NoCaller ==
    /\ status = "none" /\ dom = NoDomain /\ other = NoDomain
    /\ input = <<>> /\ hist = <<>> /\ sizing = NoSizing

CallerVars == <<status, dom, other, input, hist, sizing>>

\* parallel_fft(a, omega, log_n, log_cpus) has allocated tmp and spawned one
\* task per lane.
InitPar ==
    /\ parallel = TRUE
    /\ num_threads = LargestPool
    /\ NoCaller /\ NoPolys
    /\ \E log_n \in 0 .. (S - 1), k \in 0 .. MaxSeed :
         \E log_cpus \in 0 .. (IF log_n < MaxLogCpus THEN log_n ELSE MaxLogCpus),
            omega \in PrimitiveRoots(log_n),
            chunk_size \in ChunkSizes(Shl(log_n)) :
             /\ par = [chunk_size |-> chunk_size,
                       g |-> 0,
                       log_cpus |-> log_cpus,
                       log_n |-> log_n,
                       omega |-> omega]
             /\ a = InputVec(Shl(log_n), k)
             /\ a0 = a
             /\ tmp = [j \in 1 .. Shl(log_cpus) |-> Zeros(Shl(log_n - log_cpus))]
             /\ pending = 0 .. (Shl(log_cpus) - 1)
    /\ pc = "lanes"
    /\ task = <<>> /\ writers = <<>>

\* The task of lane j runs to completion; it writes tmp[j] only.
LaneRun ==
    \E j \in pending :
        /\ pc = "lanes"
        /\ tmp' = [tmp EXCEPT ![j + 1] =
                      LaneTask(a, par.omega, par.log_n, par.log_cpus, j).a]
        /\ pending' = pending \ {j}
        /\ UNCHANGED <<pc, a, a0, par, task, writers, pa, pb, EnvVars, CallerVars>>

\* The first scope ends when every lane task has; the second scope spawns one
\* task per chunk of a.
LanesJoined ==
    /\ pc = "lanes" /\ pending = {}
    /\ pc' = "recombine"
    /\ pending' = 0 .. (NumChunks(Len(a), par.chunk_size) - 1)
    /\ UNCHANGED <<a, a0, tmp, par, task, writers, pa, pb, EnvVars, CallerVars>>

RecombineRun ==
    \E c \in pending :
        /\ pc = "recombine"
        /\ a' = RecombineTask(a, tmp, c, par.chunk_size, par.log_cpus).a
        /\ pending' = pending \ {c}
        /\ UNCHANGED <<pc, a0, tmp, par, task, writers, pa, pb, EnvVars, CallerVars>>

RecombineJoined ==
    /\ pc = "recombine" /\ pending = {}
    /\ pc' = "done"
    /\ UNCHANGED <<a, a0, tmp, pending, par, task, writers, pa, pb, EnvVars, CallerVars>>

NextPar ==
    \/ LaneRun
    \/ LanesJoined
    \/ RecombineRun
    \/ RecombineJoined

SpecPar == InitPar /\ [][NextPar]_vars

\* ------------------------------------------------------------------
\* distribute_powers, element by element
\* ------------------------------------------------------------------

\* distribute_powers(g) of the parallel build has spawned one task per chunk.
InitDist ==
    /\ parallel = TRUE
    /\ num_threads = LargestPool
    /\ NoCaller /\ NoPolys
    /\ \E n \in 0 .. MaxLen, k \in 0 .. MaxSeed, g \in DistGens \cup {GENERATOR} :
       \E chunk_size \in ChunkSizes(n) :
         LET chunks == NumChunks(n, chunk_size)
         IN  /\ par = [chunk_size |-> chunk_size,
                       g |-> g,
                       log_cpus |-> 0,
                       log_n |-> 0,
                       omega |-> 0]
             /\ a = InputVec(n, k)
             /\ a0 = a
             /\ pending = 0 .. (chunks - 1)
             /\ task = [c \in 1 .. chunks |->
                           [pos |-> ChunkLo(c - 1, chunk_size),
                            u |-> DistStart(c - 1, chunk_size, g)]]
             /\ writers = [i \in 1 .. n |-> {}]
    /\ pc = "chunks"
    /\ tmp = <<>>

\* One iteration of the loop of task c: v.mul_assign(&u); u.mul_assign(&g).
DistStep ==
    \E c \in pending :
        LET t == task[c + 1]
        IN  /\ pc = "chunks"
            /\ t.pos < ChunkHi(Len(a), c, par.chunk_size)
            /\ a' = DistElem(a, t.pos, t.u)
            /\ task' = [task EXCEPT ![c + 1] = [pos |-> t.pos + 1, u |-> Mul(t.u, par.g)]]
            /\ writers' = [writers EXCEPT ![t.pos + 1] = @ \cup {c}]
            /\ UNCHANGED <<pc, a0, tmp, pending, par, pa, pb, EnvVars, CallerVars>>

\* Task c has reached the end of its chunk.
DistTaskEnd ==
    \E c \in pending :
        /\ pc = "chunks"
        /\ task[c + 1].pos >= ChunkHi(Len(a), c, par.chunk_size)
        /\ pending' = pending \ {c}
        /\ UNCHANGED <<pc, a, a0, tmp, par, task, writers, pa, pb, EnvVars, CallerVars>>

\* rayon::scope returns once every spawned task has finished.
DistJoined ==
    /\ pc = "chunks" /\ pending = {}
    /\ pc' = "done"
    /\ UNCHANGED <<a, a0, tmp, pending, par, task, writers, pa, pb, EnvVars, CallerVars>>

NextDist ==
    \/ DistStep
    \/ DistTaskEnd
    \/ DistJoined

SpecDist == InitDist /\ [][NextDist]_vars

\* ------------------------------------------------------------------
\* Multiplication through the evaluation domain (crate::polynomial)
\* ------------------------------------------------------------------

\* Longest coefficient list of a factor.
MaxPolyLen == 3

Polys == {InputVec(n, k) : n \in 1 .. MaxPolyLen, k \in 0 .. MaxSeed}

\* Polynomial * Polynomial: the schoolbook product.
RECURSIVE ConvSum(_, _, _, _)
ConvSum(x, y, k, i) ==
    IF i > Len(x) THEN 0
    ELSE Add(IF k - i + 1 >= 1 /\ k - i + 1 <= Len(y)
             THEN Mul(x[i], y[k - i + 1]) ELSE 0,
             ConvSum(x, y, k, i + 1))

NaiveMul(x, y) == [k \in 1 .. (Len(x) + Len(y) - 1) |-> ConvSum(x, y, k, 1)]

\* Polynomial::fft_mul: both factors padded to n >= deg(x) + deg(y) + 1,
\* transformed, multiplied pointwise, transformed back.
fft_mul(x, y, n) ==
    LET lhs == from_coeffs(Resize(x, n))
        rhs == from_coeffs(Resize(y, n))
    IN  IF ~(lhs.ok /\ rhs.ok) THEN [dom |-> NoDomain, ok |-> FALSE, rhs |-> NoDomain]
        ELSE LET fl == fft(lhs.dom)
                 fr == fft(rhs.dom)
                 m == mul_assign(fl.dom, fr.dom)
                 r == ifft(m.dom)
             IN  [dom |-> r.dom, ok |-> fl.ok /\ fr.ok /\ m.ok /\ r.ok, rhs |-> fr.dom]

FftMul ==
    \E x \in Polys, y \in Polys, extra \in 0 .. 1 :
        LET r == fft_mul(x, y, Len(x) + Len(y) - 1 + extra)
        IN  /\ status = "none"
            /\ pa' = x /\ pb' = y
            /\ dom' = r.dom /\ other' = r.rhs
            /\ status' = IF r.ok THEN "ok" ELSE "panic"
            /\ hist' = <<"fft_mul">>
            /\ UNCHANGED <<input, sizing, EnvVars, ScopeVars>>

NextMul ==
    \/ FftMul

SpecMul == Init /\ [][NextMul]_vars

\* ------------------------------------------------------------------
\* Properties: domain sizing
\* ------------------------------------------------------------------

\* x^n by n multiplications.
RECURSIVE IterPow(_, _)
IterPow(x, n) == IF n = 0 THEN 1 ELSE Mul(x, IterPow(x, n - 1))

ExpRange == 0 .. (2 * S)
IsPow2(n) == \E e \in ExpRange : n = 2 ^ e
\* The exponent of the smallest power of two >= d.
NeededExp(d) == CHOOSE e \in ExpRange : 2 ^ e >= d /\ \A f \in 0 .. (e - 1) : 2 ^ f < d

SizedRight(d, r) ==
    /\ r.ok
    /\ r.m = 2 ^ r.exp
    /\ r.m >= d
    /\ \A e \in ExpRange : 2 ^ e >= d => 2 ^ e >= r.m
    /\ IterPow(r.omega, r.m) = 1

\* C1 (as amended): compute_omega(d) fails exactly when the needed exponent is
\* >= S; otherwise it returns m = 2^exp, the smallest power of two >= d, with
\* omega^m = 1, and omega^(m/2) # 1 whenever m >= 2 (for m = 1, omega = 1).
C1_SizingCorrect ==
    sizing.called =>
        IF NeededExp(sizing.d) >= S
        THEN ~sizing.res.ok
        ELSE /\ SizedRight(sizing.d, sizing.res)
             /\ sizing.res.m >= 2 => IterPow(sizing.res.omega, sizing.res.m \div 2) # 1
             /\ sizing.res.m = 1 => sizing.res.omega = 1

\* C1 as stated: omega^(m/2) # 1 for every returned m, m = 1 included.
C1_Original ==
    sizing.called =>
        IF NeededExp(sizing.d) >= S
        THEN ~sizing.res.ok
        ELSE /\ SizedRight(sizing.d, sizing.res)
             /\ IterPow(sizing.res.omega, sizing.res.m \div 2) # 1

C1_Witness ==
    /\ sizing.called /\ sizing.d = 5
    /\ sizing.res.ok /\ sizing.res.m = 8 /\ sizing.res.exp = 3

\* C2: sizing succeeds whenever the needed exponent is <= S (a domain of size
\* 2^S included) and fails only above S; from_coeffs returns the same error
\* and builds no domain.
C2_BoundarySucceeds ==
    /\ sizing.called => (sizing.res.ok <=> NeededExp(sizing.d) <= S)
    /\ status = "err" => NeededExp(Len(input)) > S /\ dom = NoDomain
    /\ (status = "ok" /\ hist = <<"from_coeffs">>) => NeededExp(Len(input)) <= S

\* ------------------------------------------------------------------
\* Properties: one caller holding one domain
\* ------------------------------------------------------------------

Last(h) == h[Len(h)]
Held == status = "ok" \/ status = "panic"

\* C3: on a domain built by from_coeffs from v of power-of-two length,
\* fft then ifft, and ifft then fft, give back v exactly.
C3_TransformRoundTrip ==
    (/\ IsPow2(Len(input))
     /\ hist \in {<<"from_coeffs", "fft", "ifft">>, <<"from_coeffs", "ifft", "fft">>})
    => status = "ok" /\ dom.coeffs = input

C3_Witness ==
    /\ hist = <<"from_coeffs", "fft", "ifft">>
    /\ Len(input) = 8 /\ parallel /\ num_threads = 2
    /\ status = "ok" /\ dom.coeffs = input
    /\ \E i \in 1 .. 8 : input[i] # 0

\* C4: on a domain built by from_coeffs from v of power-of-two length,
\* icoset_fft then coset_fft, and coset_fft then icoset_fft, give back v.
C4_CosetRoundTrip ==
    (/\ IsPow2(Len(input))
     /\ hist \in {<<"from_coeffs", "icoset_fft", "coset_fft">>,
                  <<"from_coeffs", "coset_fft", "icoset_fft">>})
    => status = "ok" /\ dom.coeffs = input

C4_Witness ==
    /\ hist = <<"from_coeffs", "coset_fft", "icoset_fft">>
    /\ Len(input) = 8 /\ parallel /\ num_threads = 4
    /\ status = "ok" /\ dom.coeffs = input
    /\ \E i \in 1 .. 8 : input[i] # 0

C8_PointwiseStep ==
    \/ hist' = hist
    \/ Last(hist') \notin {"mul_assign", "sub_assign"}
    \/ /\ len(dom) # len(other')
       /\ status' = "panic"
       /\ dom' = dom
    \/ /\ len(dom) = len(other')
       /\ status' = "ok"
       /\ len(dom') = len(dom)
       /\ \A i \in 1 .. len(dom) :
             dom'.coeffs[i] =
                 IF Last(hist') = "mul_assign"
                 THEN (dom.coeffs[i] * other'.coeffs[i]) % P
                 ELSE (dom.coeffs[i] - other'.coeffs[i] + P) % P
       /\ [dom' EXCEPT !.coeffs = dom.coeffs] = dom

C8_PointwiseAssign == [][C8_PointwiseStep]_vars

C8_Witness ==
    /\ hist = <<"from_coeffs", "sub_assign", "mul_assign">>
    /\ status = "panic"
    /\ len(dom) = 8 /\ len(other) = 4

\* C9: the buffer of every held domain has a power-of-two length equal to d = 2^exp.
C9_LengthIsD ==
    Held => IsPow2(len(dom)) /\ len(dom) = dom.d /\ dom.d = 2 ^ dom.exp

\* ------------------------------------------------------------------
\* Properties: the scoped parallel calls
\* ------------------------------------------------------------------

\* C5: whatever order the lane tasks and the recombination tasks ran in,
\* parallel_fft leaves the buffer equal, element for element, to serial_fft of
\* the same input with the same root.
C5_ParallelEqualsSerial ==
    pc = "done" =>
        /\ serial_fft(a0, par.omega, par.log_n).ok
        /\ a = serial_fft(a0, par.omega, par.log_n).a

C5_Witness ==
    /\ pc = "done" /\ par.log_n = 3 /\ par.log_cpus = 1 /\ par.chunk_size = 2
    /\ a # a0
    /\ a = serial_fft(a0, par.omega, par.log_n).a

\* C10: distribute_powers returns only when every task has finished its chunk,
\* no buffer index is written by two tasks, and element i ends as its previous
\* value times g^i, as the single-threaded loop leaves it.
C10_DistributePowers ==
    pc \in {"chunks", "done"} =>
        /\ \A i \in 1 .. Len(writers) : Cardinality(writers[i]) <= 1
        /\ pc = "done" =>
              /\ pending = {}
              /\ \A c \in 1 .. Len(task) :
                    task[c].pos = ChunkHi(Len(a), c - 1, par.chunk_size)
              /\ \A i \in 1 .. Len(a) : Cardinality(writers[i]) = 1
              /\ Len(a) = Len(a0)
              /\ \A i \in 1 .. Len(a) : a[i] = (a0[i] * IterPow(par.g, i - 1)) % P
              /\ a = DistSerial(a0, 0, par.g)

C10_Witness ==
    /\ pc = "done" /\ Len(a) = 8 /\ par.g = GENERATOR
    /\ par.chunk_size = 2 /\ Len(task) = 4
    /\ a # a0

\* C6: the schoolbook product of a and b equals the coefficients fft_mul
\* leaves in the domain (of size >= deg(a) + deg(b) + 1), padded with zeroes.
C6_MulViaEvaluation ==
    hist = <<"fft_mul">> =>
        /\ status = "ok"
        /\ len(dom) >= Len(pa) + Len(pb) - 1
        /\ dom.coeffs = Resize(NaiveMul(pa, pb), len(dom))

C6_Witness ==
    /\ hist = <<"fft_mul">> /\ status = "ok"
    /\ Len(pa) = 3 /\ Len(pb) = 3 /\ len(dom) = 8
    /\ dom.coeffs[5] # 0
    /\ dom.coeffs = Resize(NaiveMul(pa, pb), 8)

====
